---- MODULE Spec2Model ----
(***************************************************************************)
(* A model of the eguard request guard: eguard-core (EGuard::new,          *)
(* is_secure, extract_session_id, fetch_trust, decide) and the eguard-node *)
(* binding (JsEGuard, DecideTask).                                         *)
(*                                                                         *)
(* Strings the code inspects character by character (cookie headers,      *)
(* header names and values, methods, path patterns, paths) are sequences   *)
(* of one-character strings.  Option<T> is a sequence of length at most    *)
(* one: None is << >>, Some(x) is <<x>>.  Result<T> is a record            *)
(* [ok, val].  f32 values are integers on a grid plus one NaN.             *)
(*                                                                         *)
(* Three specifications share the module: SpecDecide (the trust call and   *)
(* the verdict, with concurrent invocations through the binding),          *)
(* SpecExtract (session extraction) and SpecRoute (guard construction and  *)
(* route matching).                                                        *)
(***************************************************************************)
EXTENDS Integers, Sequences, FiniteSets, Bags, TLC

VARIABLES
    min_trust_score,  \* cfg.min_trust_score of the guard decide runs on
    pc,               \* per invocation: idle, queued, inflight, computed, resolved, rejected
    task,             \* per invocation: DecideTask.session_id (Option)
    wire,             \* bag of the requests the trust service has been sent
    reply,            \* per invocation: the outcome of its own request (Option)
    fetched,          \* per invocation: what fetch_trust returned (Option of Result)
    result,           \* per invocation: what decide returned (Option of Result)
    settled,          \* per invocation: how the host promise settled (Option of Result)
    session_extraction, \* cfg.session_extraction of the guard extraction runs on
    xargs,            \* the arguments of the extract_session_id call (Option)
    xsegs,            \* the segments the cookie header of the call was joined from
    xout,             \* what extract_session_id returned (Option of Option)
    secure_routes,    \* cfg.secure_routes handed to the constructor (Option)
    client_built,     \* whether Client::builder().build() succeeded (Option)
    guard,            \* what the constructor returned (Option of Result)
    query,            \* the arguments of the is_secure call (Option)
    secure            \* what is_secure returned (Option)

decideVars == <<min_trust_score, pc, task, wire, reply, fetched, result, settled>>

extractVars == <<session_extraction, xargs, xsegs, xout>>

routeVars == <<secure_routes, client_built, guard, query, secure>>

vars == <<decideVars, extractVars, routeVars>>

None == << >>
Some(x) == <<x>>
Ok(v) == [ok |-> TRUE, val |-> v]
Err(e) == [ok |-> FALSE, val |-> e]

----------------------------------------------------------------------------
(* f32: a grid of integers and NaN.  Every comparison with NaN is false.   *)

F32(v) == [nan |-> FALSE, v |-> v]

NaN == [nan |-> TRUE, v |-> 0]

\* The f32 operator >=.
F32Ge(a, b) == IF a.nan \/ b.nan THEN FALSE ELSE a.v >= b.v

----------------------------------------------------------------------------
(* The trust service, seen from the client.                                *)

\* The number of concurrent decide invocations.
NumCalls == 2

Calls == 1..NumCalls

SessionIds == {"ghost", "alice"}

\* trust_score values a 2xx body can carry (JSON has no NaN).
Scores == {F32(0), F32(1), F32(2)}

\* min_trust_score values of the configuration.
Thresholds == {F32(-1), F32(0), F32(1), NaN}

NOT_FOUND == 404

DenyStatus == 403

\* A response body: a JSON TrustResponse, or text that is not one.
TrustBody(sid, score) ==
    [json |-> TRUE, session_id |-> sid, trust_score |-> score, reason |-> None]

Garbage == [json |-> FALSE, session_id |-> "", trust_score |-> F32(0), reason |-> None]

HttpReply(status, body) == [kind |-> "http", status |-> status, body |-> body]

Timeout == [kind |-> "timeout", status |-> 0, body |-> Garbage]

ConnectFailure == [kind |-> "connect", status |-> 0, body |-> Garbage]

Outcomes ==
    {Timeout, ConnectFailure}
        \cup {HttpReply(200, TrustBody("alice", s)) : s \in Scores}
        \cup {HttpReply(s, Garbage) : s \in {200, 204, 302, NOT_FOUND, 500}}
        \cup {HttpReply(s, TrustBody("alice", F32(2))) : s \in {NOT_FOUND, 500}}

\* StatusCode::is_success: 200..=299.
is_success(status) == 200 <= status /\ status <= 299

\* The GET {api_base_url}/eguard/trust?sid={session_id} request.
TrustRequest(session_id) == [path |-> "/eguard/trust", sid |-> session_id]

\* Mutant of send: a request already on the wire for the id is reused.
send_coalesced(w, session_id) ==
    IF BagIn(TrustRequest(session_id), w)
    THEN w
    ELSE w (+) SetToBag({TrustRequest(session_id)})

\* client.get(url).query(..).bearer_auth(..).send(): one request on the wire.
send(w, session_id) == w (+) SetToBag({TrustRequest(session_id)})

\* resp.json::<TrustResponse>(): the body parsed, or a decode error.
json(body) ==
    IF body.json
    THEN Ok([session_id |-> body.session_id, trust_score |-> body.trust_score,
             reason |-> body.reason])
    ELSE Err([error |-> "decode", status |-> 0])

\* Mutant of fetch_trust: every non-success status degrades to a zero score.
fetch_trust_lenient(session_id, outcome) ==
    IF outcome.kind # "http"
    THEN Err([error |-> outcome.kind, status |-> 0])
    ELSE IF is_success(outcome.status)
    THEN json(outcome.body)
    ELSE Ok([session_id |-> session_id, trust_score |-> F32(0),
             reason |-> Some("unknown_session")])

\* Mutant of fetch_trust: a 404 is an error like any other status.
fetch_trust_strict(session_id, outcome) ==
    IF outcome.kind # "http"
    THEN Err([error |-> outcome.kind, status |-> 0])
    ELSE IF is_success(outcome.status)
    THEN json(outcome.body)
    ELSE Err([error |-> "Trust API error", status |-> outcome.status])

\* EGuard::fetch_trust, from the outcome of send().await on.
fetch_trust(session_id, outcome) ==
    IF outcome.kind # "http"
    THEN Err([error |-> outcome.kind, status |-> 0])
    ELSE IF is_success(outcome.status)
    THEN json(outcome.body)
    ELSE IF outcome.status = NOT_FOUND
    THEN Ok([session_id |-> session_id, trust_score |-> F32(0),
             reason |-> Some("unknown_session")])
    ELSE Err([error |-> "Trust API error", status |-> outcome.status])

Allow == [allow |-> TRUE, status |-> None, message |-> None]

Deny(status, message) ==
    [allow |-> FALSE, status |-> Some(status), message |-> Some(message)]

\* format!("Low trust score: {}", trust_score)
LowTrustMessage(trust_score) == <<"Low trust score: ", trust_score>>

\* Mutant of decide: the comparison is strict.
decide_exclusive(min, trust) ==
    IF ~trust.ok
    THEN trust
    ELSE IF F32Ge(trust.val.trust_score, min) /\ trust.val.trust_score # min
    THEN Ok(Allow)
    ELSE Ok(Deny(DenyStatus, LowTrustMessage(trust.val.trust_score)))

\* EGuard::decide, after fetch_trust returned `trust`.
decide(min, trust) ==
    IF ~trust.ok
    THEN trust
    ELSE IF F32Ge(trust.val.trust_score, min)
    THEN Ok(Allow)
    ELSE Ok(Deny(DenyStatus, LowTrustMessage(trust.val.trust_score)))

\* DecideTask::run: the error mapped to a napi error with the same text.
DecideTask_run(r) == IF r.ok THEN r ELSE Err(r.val)

\* Task::resolve: the Decision as a JsDecision.
DecideTask_resolve(out) ==
    [allow |-> out.allow, status |-> out.status, message |-> out.message]

----------------------------------------------------------------------------
(* Concurrent decide invocations on one guard.                             *)

NoDecide ==
    /\ pc = [c \in Calls |-> "idle"]
    /\ task = [c \in Calls |-> None]
    /\ wire = EmptyBag
    /\ reply = [c \in Calls |-> None]
    /\ fetched = [c \in Calls |-> None]
    /\ result = [c \in Calls |-> None]
    /\ settled = [c \in Calls |-> None]

NoExtract ==
    /\ xargs = None
    /\ xsegs = << >>
    /\ xout = None

NoRoute ==
    /\ secure_routes = None
    /\ client_built = None
    /\ guard = None
    /\ query = None
    /\ secure = None

DefaultExtraction ==
    [cookie_name |-> None, header_name |-> None, header_bearer |-> FALSE]

InitDecide ==
    /\ min_trust_score \in Thresholds
    /\ session_extraction = DefaultExtraction
    /\ NoDecide
    /\ NoExtract
    /\ NoRoute

\* JsEGuard::decide: an AsyncTask holding a clone of the guard and the id.
JsEGuard_decide(c, session_id) ==
    /\ pc[c] = "idle"
    /\ pc' = [pc EXCEPT ![c] = "queued"]
    /\ task' = [task EXCEPT ![c] = Some(session_id)]
    /\ UNCHANGED <<min_trust_score, wire, reply, fetched, result, settled, extractVars, routeVars>>

\* Task::compute -> run -> decide -> fetch_trust, up to send().await.
DecideTask_send(c) ==
    /\ pc[c] = "queued"
    /\ wire' = send(wire, task[c][1])
    /\ pc' = [pc EXCEPT ![c] = "inflight"]
    /\ UNCHANGED <<min_trust_score, task, reply, fetched, result, settled, extractVars, routeVars>>

\* The request of invocation c completes with `outcome`; fetch_trust and
\* decide run to their end and compute returns.
DecideTask_compute(c, outcome) ==
    /\ pc[c] = "inflight"
    /\ LET trust == fetch_trust(task[c][1], outcome)
       IN  /\ reply' = [reply EXCEPT ![c] = Some(outcome)]
           /\ fetched' = [fetched EXCEPT ![c] = Some(trust)]
           /\ result' = [result EXCEPT ![c] =
                            Some(DecideTask_run(decide(min_trust_score, trust)))]
    /\ pc' = [pc EXCEPT ![c] = "computed"]
    /\ UNCHANGED <<min_trust_score, task, wire, settled, extractVars, routeVars>>

\* The host settles the promise: resolve on Ok, rejection on Err.
DecideTask_settle(c) ==
    /\ pc[c] = "computed"
    /\ LET r == result[c][1]
       IN  /\ settled' = [settled EXCEPT ![c] =
                            Some(IF r.ok THEN Ok(DecideTask_resolve(r.val)) ELSE r)]
           /\ pc' = [pc EXCEPT ![c] = IF r.ok THEN "resolved" ELSE "rejected"]
    /\ UNCHANGED <<min_trust_score, task, wire, reply, fetched, result, extractVars, routeVars>>

NextDecide ==
    \E c \in Calls :
        \/ \E sid \in SessionIds : JsEGuard_decide(c, sid)
        \/ DecideTask_send(c)
        \/ \E o \in Outcomes : DecideTask_compute(c, o)
        \/ DecideTask_settle(c)

SpecDecide == InitDecide /\ [][NextDecide]_vars

----------------------------------------------------------------------------
(* Strings: sequences of one-character strings.                            *)

LowerCase == <<"a", "b", "c", "d", "e", "f", "g", "h", "i", "j", "k", "l", "m",
               "n", "o", "p", "q", "r", "s", "t", "u", "v", "w", "x", "y", "z">>

UpperCase == <<"A", "B", "C", "D", "E", "F", "G", "H", "I", "J", "K", "L", "M",
               "N", "O", "P", "Q", "R", "S", "T", "U", "V", "W", "X", "Y", "Z">>

to_ascii_lowercase(ch) ==
    IF \E i \in DOMAIN UpperCase : UpperCase[i] = ch
    THEN LowerCase[CHOOSE i \in DOMAIN UpperCase : UpperCase[i] = ch]
    ELSE ch

to_uppercase_char(ch) ==
    IF \E i \in DOMAIN LowerCase : LowerCase[i] = ch
    THEN UpperCase[CHOOSE i \in DOMAIN LowerCase : LowerCase[i] = ch]
    ELSE ch

\* str::to_uppercase, on the ASCII range.
to_uppercase(str) == [i \in DOMAIN str |-> to_uppercase_char(str[i])]

\* str::eq_ignore_ascii_case
eq_ignore_ascii_case(a, b) ==
    /\ Len(a) = Len(b)
    /\ \A i \in DOMAIN a : to_ascii_lowercase(a[i]) = to_ascii_lowercase(b[i])

is_whitespace(ch) == ch \in {" ", "\t"}

RECURSIVE trim_start(_)
trim_start(str) ==
    IF str # << >> /\ is_whitespace(Head(str)) THEN trim_start(Tail(str)) ELSE str

RECURSIVE trim_end(_)
trim_end(str) ==
    IF str # << >> /\ is_whitespace(str[Len(str)])
    THEN trim_end(SubSeq(str, 1, Len(str) - 1))
    ELSE str

\* str::trim
trim(str) == trim_end(trim_start(str))

\* The index of the first `ch` in `str`, 0 when there is none.
find(str, ch) ==
    IF \E i \in DOMAIN str : str[i] = ch
    THEN CHOOSE i \in DOMAIN str :
            str[i] = ch /\ \A j \in 1..(i - 1) : str[j] # ch
    ELSE 0

\* str::split(ch): the pieces between the separators, in order.
RECURSIVE split(_, _)
split(str, ch) ==
    LET i == find(str, ch)
    IN  IF i = 0
        THEN <<str>>
        ELSE <<SubSeq(str, 1, i - 1)>> \o split(SubSeq(str, i + 1, Len(str)), ch)

\* str::splitn(2, ch): at most two pieces, cut at the first separator.
splitn2(str, ch) ==
    LET i == find(str, ch)
    IN  IF i = 0
        THEN <<str>>
        ELSE <<SubSeq(str, 1, i - 1), SubSeq(str, i + 1, Len(str))>>

\* str::strip_prefix
strip_prefix(str, prefix) ==
    IF Len(str) >= Len(prefix) /\ SubSeq(str, 1, Len(prefix)) = prefix
    THEN Some(SubSeq(str, Len(prefix) + 1, Len(str)))
    ELSE None

Bearer == <<"B", "e", "a", "r", "e", "r", " ">>

----------------------------------------------------------------------------
(* Session extraction.                                                     *)

\* Mutant of scan_cookies: a later pair with the key overrides an earlier one.
RECURSIVE scan_cookies_last(_, _)
scan_cookies_last(pairs, cookie_name) ==
    IF pairs = << >>
    THEN None
    ELSE LET it == splitn2(trim(Head(pairs)), "=")
             later == scan_cookies_last(Tail(pairs), cookie_name)
         IN  IF later # None
             THEN later
             ELSE IF Len(it) = 2 /\ it[1] = cookie_name THEN Some(it[2]) ELSE None

\* The loop over raw.split(';'): the first pair whose key is cookie_name.
RECURSIVE scan_cookies(_, _)
scan_cookies(pairs, cookie_name) ==
    IF pairs = << >>
    THEN None
    ELSE LET it == splitn2(trim(Head(pairs)), "=")
         IN  IF Len(it) = 2 /\ it[1] = cookie_name
             THEN Some(it[2])
             ELSE scan_cookies(Tail(pairs), cookie_name)

\* The cookie branch of extract_session_id.
extract_cookie(se, cookies) ==
    IF se.cookie_name # None /\ cookies # None
    THEN scan_cookies(split(cookies[1], ";"), se.cookie_name[1])
    ELSE None

\* Mutant of extract_header: the prefix is looked for in the raw value.
extract_header_untrimmed(se, header_name_val) ==
    IF se.header_name # None /\ header_name_val # None
          /\ eq_ignore_ascii_case(se.header_name[1], header_name_val[1][1])
    THEN LET val == header_name_val[1][2]
             rest == strip_prefix(val, Bearer)
         IN  IF se.header_bearer /\ rest # None THEN rest ELSE Some(val)
    ELSE None

\* The header branch of extract_session_id.
extract_header(se, header_name_val) ==
    IF se.header_name # None /\ header_name_val # None
          /\ eq_ignore_ascii_case(se.header_name[1], header_name_val[1][1])
    THEN LET val == header_name_val[1][2]
             rest == strip_prefix(trim(val), Bearer)
         IN  IF se.header_bearer /\ rest # None THEN rest ELSE Some(val)
    ELSE None

\* Mutant of extract_session_id: the header is tried before the cookies.
extract_session_id_header_first(se, cookies, header_name_val) ==
    LET h == extract_header(se, header_name_val)
    IN  IF h # None THEN h ELSE extract_cookie(se, cookies)

\* EGuard::extract_session_id
extract_session_id(se, cookies, header_name_val) ==
    LET c == extract_cookie(se, cookies)
    IN  IF c # None THEN c ELSE extract_header(se, header_name_val)

\* JsEGuard::extract_session_id: the header pair only when both are given.
JsEGuard_extract_session_id(se, cookie_header, header_name, header_value) ==
    IF header_name # None /\ header_value # None
    THEN extract_session_id(se, cookie_header, Some(<<header_name[1], header_value[1]>>))
    ELSE extract_session_id(se, cookie_header, None)

\* JsEGuard::new: the JsSessionExtraction as a SessionExtraction.
SessionExtraction(js) ==
    [cookie_name |-> js.cookie_name, header_name |-> js.header_name,
     header_bearer |-> IF js.header_bearer = None THEN FALSE ELSE js.header_bearer[1]]

\* The number of ';'-separated segments of a cookie header.
MaxSegs == 3

Sid == <<"s", "i", "d">>

Auth == <<"A", "u", "t", "h">>

CookieSegments ==
    { <<"s", "i", "d", "=", "x">>,
      <<"s", "i", "d", "=", "y", "=", "z">>,
      <<" ", "s", "i", "d", "=", "x", " ">>,
      <<"S", "i", "d", "=", "x">>,
      <<"s", "i", "d", " ", "=", "x">>,
      <<"s", "i", "d">>,
      << >> }

RECURSIVE join(_, _)
join(segs, ch) ==
    IF Len(segs) = 1 THEN segs[1] ELSE segs[1] \o <<ch>> \o join(Tail(segs), ch)

SegmentLists == UNION {[1..n -> CookieSegments] : n \in 1..MaxSegs}

HeaderNames == {<<"a", "u", "T", "H">>, <<"A", "u", "t">>}

HeaderValues ==
    { <<"B", "e", "a", "r", "e", "r", " ", "t">>,
      <<"t">>,
      <<" ", "B", "e", "a", "r", "e", "r", " ", "t">>,
      <<"B", "e", "a", "r", "e", "r", " ", "t", " ">>,
      <<"B", "e", "a", "r", "e", "r", " ">>,
      <<"b", "e", "a", "r", "e", "r", " ", "t">>,
      <<"B", "e", "a", "r", "e", "r", " ", " ", "t">>,
      <<" ", "t", " ">> }

HeaderArgs ==
    {<<None, None>>, <<Some(Auth), None>>, <<None, Some(<<"t">>)>>}
        \cup {<<Some(n), Some(v)>> : n \in HeaderNames, v \in HeaderValues}

JsSessionExtractions ==
    [cookie_name : {None, Some(Sid)}, header_name : {None, Some(Auth)},
     header_bearer : {None, Some(FALSE), Some(TRUE)}]

InitExtract ==
    /\ \E js \in JsSessionExtractions : session_extraction = SessionExtraction(js)
    /\ min_trust_score = F32(0)
    /\ NoDecide
    /\ NoExtract
    /\ NoRoute

\* One call of JsEGuard::extract_session_id whose cookie header, when given,
\* is `segs` joined by ';'.
CallExtract(cookie_given, segs, h) ==
    /\ xargs = None
    /\ LET cookie_header == IF cookie_given THEN Some(join(segs, ";")) ELSE None
       IN  /\ xargs' = Some([cookie_header |-> cookie_header,
                             header_name |-> h[1], header_value |-> h[2]])
           /\ xsegs' = IF cookie_given THEN segs ELSE << >>
           /\ xout' = Some(JsEGuard_extract_session_id(
                              session_extraction, cookie_header, h[1], h[2]))
    /\ UNCHANGED <<session_extraction, decideVars, routeVars>>

\* The call is made once per behaviour; the guard is read before the
\* arguments are drawn.
ExtractWithCookies ==
    /\ xargs = None
    /\ \E segs \in SegmentLists, h \in HeaderArgs : CallExtract(TRUE, segs, h)

ExtractWithoutCookies ==
    /\ xargs = None
    /\ \E h \in HeaderArgs : CallExtract(FALSE, << >>, h)

NextExtract == ExtractWithCookies \/ ExtractWithoutCookies

SpecExtract == InitExtract /\ [][NextExtract]_vars

----------------------------------------------------------------------------
(* Route patterns.  The pattern language is the part of the regex syntax   *)
(* made of literal characters, '.', the anchors '^' and '$', and groups.   *)

\* The nesting depth after each character of the pattern.
RECURSIVE group_depths(_, _)
group_depths(pattern, depth) ==
    IF pattern = << >>
    THEN << >>
    ELSE LET d == CASE Head(pattern) = "(" -> depth + 1
                    [] Head(pattern) = ")" -> depth - 1
                    [] OTHER -> depth
         IN  <<d>> \o group_depths(Tail(pattern), d)

\* Regex::new: the compiled pattern, or the parse error.
Regex_new(pattern) ==
    LET ds == group_depths(pattern, 0)
    IN  IF \E i \in DOMAIN ds : ds[i] < 0
        THEN Err("unopened group")
        ELSE IF ds # << >> /\ ds[Len(ds)] > 0
        THEN Err("unclosed group")
        ELSE Ok(SelectSeq(pattern, LAMBDA ch : ch \notin {"(", ")"}))

\* Whether the compiled pattern, from its i-th item on, matches at `pos`.
RECURSIVE match_at(_, _, _, _)
match_at(re, i, text, pos) ==
    IF i > Len(re)
    THEN TRUE
    ELSE CASE re[i] = "^" -> pos = 0 /\ match_at(re, i + 1, text, pos)
           [] re[i] = "$" -> pos = Len(text) /\ match_at(re, i + 1, text, pos)
           [] re[i] = "." -> /\ pos < Len(text)
                             /\ text[pos + 1] # "\n"
                             /\ match_at(re, i + 1, text, pos + 1)
           [] OTHER -> /\ pos < Len(text)
                       /\ text[pos + 1] = re[i]
                       /\ match_at(re, i + 1, text, pos + 1)

\* Regex::is_match: a match starting anywhere in the text.
is_match(re, text) == \E pos \in 0..Len(text) : match_at(re, 1, text, pos)

----------------------------------------------------------------------------
(* Guard construction and route matching.                                  *)

\* Mutant of compile_route: the methods are kept as the configuration wrote them.
compile_route_verbatim(r) ==
    LET re == Regex_new(r.path_pattern)
    IN  IF ~re.ok
        THEN Err([error |-> "Invalid route regex", pattern |-> r.path_pattern,
                  cause |-> re.val])
        ELSE Ok([re |-> re.val, methods |-> r.methods])

\* The closure of EGuard::new: one route compiled.
compile_route(r) ==
    LET re == Regex_new(r.path_pattern)
    IN  IF ~re.ok
        THEN Err([error |-> "Invalid route regex", pattern |-> r.path_pattern,
                  cause |-> re.val])
        ELSE Ok([re |-> re.val,
                 methods |-> IF r.methods = None
                             THEN None
                             ELSE Some([j \in DOMAIN r.methods[1] |->
                                            to_uppercase(r.methods[1][j])])])

\* Mutant of collect: a route that does not compile is left out.
RECURSIVE collect_valid(_)
collect_valid(routes) ==
    IF routes = << >>
    THEN Ok(<< >>)
    ELSE LET first == compile_route(Head(routes))
             rest == collect_valid(Tail(routes))
         IN  IF ~first.ok THEN rest ELSE Ok(<<first.val>> \o rest.val)

\* collect::<anyhow::Result<Vec<_>>>(): the compiled routes in order, or the
\* first error met.
RECURSIVE collect(_)
collect(routes) ==
    IF routes = << >>
    THEN Ok(<< >>)
    ELSE LET first == compile_route(Head(routes))
         IN  IF ~first.ok
             THEN first
             ELSE LET rest == collect(Tail(routes))
                  IN  IF ~rest.ok THEN rest ELSE Ok(<<first.val>> \o rest.val)

\* EGuard::new
EGuard_new(routes, built) ==
    IF ~built
    THEN Err([error |-> "client build", pattern |-> << >>, cause |-> "builder error"])
    ELSE LET compiled == collect(routes)
         IN  IF ~compiled.ok THEN compiled ELSE Ok([routes |-> compiled.val])

\* JsEGuard::new: each JsSecureRoute as a SecureRoute, the core error as a
\* napi error with the same text.
JsEGuard_new(js_routes, built) ==
    LET core == EGuard_new([i \in DOMAIN js_routes |->
                               [path_pattern |-> js_routes[i].path_pattern,
                                methods |-> js_routes[i].methods]], built)
    IN  IF core.ok THEN Ok([inner |-> core.val]) ELSE Err(core.val)

\* Mutant of is_secure: the first route whose pattern matches decides alone.
is_secure_first_match(routes, path, method) ==
    LET m == to_uppercase(method)
        hits == {i \in DOMAIN routes : is_match(routes[i].re, path)}
    IN  /\ hits # {}
        /\ LET i == CHOOSE h \in hits : \A k \in hits : h <= k
           IN  \/ routes[i].methods = None
               \/ \E j \in DOMAIN routes[i].methods[1] : routes[i].methods[1][j] = m

\* EGuard::is_secure
is_secure(routes, path, method) ==
    LET m == to_uppercase(method)
    IN  \E i \in DOMAIN routes :
            /\ is_match(routes[i].re, path)
            /\ \/ routes[i].methods = None
               \/ \E j \in DOMAIN routes[i].methods[1] : routes[i].methods[1][j] = m

\* The number of configured routes.
MaxRoutes == 2

GET == <<"G", "E", "T">>

Patterns ==
    { <<"^", "/", "a">>,
      <<"/", "b", "$">>,
      <<"(", "/", ".", ")">>,
      <<"(", "/", "a">>,
      <<"/", "b", ")">> }

MethodLists ==
    { None,
      Some(<< >>),
      Some(<<GET>>),
      Some(<< <<"p", "u", "t">>, <<"G", "e", "t">> >>) }

JsSecureRoutes == [path_pattern : Patterns, methods : MethodLists]

RouteLists == UNION {[1..n -> JsSecureRoutes] : n \in 0..MaxRoutes}

Paths ==
    { <<"/", "a">>, <<"/", "b">>, <<"x", "/", "a", "/", "b">>, <<"/">>, <<"b", "/", "b", "a">> }

QueryMethods ==
    { GET, <<"g", "e", "t">>, <<"P", "U", "T">>, <<"P", "u", "t">>, <<"H", "E", "A", "D">> }

InitRoute ==
    /\ min_trust_score = F32(0)
    /\ session_extraction = DefaultExtraction
    /\ NoDecide
    /\ NoExtract
    /\ NoRoute

\* new JsEGuard(cfg)
Construct ==
    /\ guard = None
    /\ \E routes \in RouteLists, built \in BOOLEAN :
        /\ secure_routes' = Some(routes)
        /\ client_built' = Some(built)
        /\ guard' = Some(JsEGuard_new(routes, built))
    /\ UNCHANGED <<query, secure, decideVars, extractVars>>

\* One call of JsEGuard::is_secure on a constructed guard.
CallIsSecure ==
    /\ guard # None
    /\ guard[1].ok
    /\ query = None
    /\ \E path \in Paths, method \in QueryMethods :
        /\ query' = Some([path |-> path, method |-> method])
        /\ secure' = Some(is_secure(guard[1].val.inner.routes, path, method))
    /\ UNCHANGED <<secure_routes, client_built, guard, decideVars, extractVars>>

NextRoute == Construct \/ CallIsSecure

SpecRoute == InitRoute /\ [][NextRoute]_vars

----------------------------------------------------------------------------
(* Session extraction: the properties.                                     *)

Called == xargs # None

CookieHeader == xargs[1].cookie_header

\* The header pair reaches the core only when name and value are both given.
HeaderSupplied ==
    xargs[1].header_name # None /\ xargs[1].header_value # None

HeaderValue == xargs[1].header_value[1]

\* `str` without its leading and trailing whitespace.
Trimmed(str) ==
    LET keep == {i \in DOMAIN str : ~is_whitespace(str[i])}
    IN  IF keep = {}
        THEN << >>
        ELSE SubSeq(str, CHOOSE i \in keep : \A j \in keep : i <= j,
                         CHOOSE i \in keep : \A j \in keep : j <= i)

StartsWith(str, prefix) ==
    /\ Len(str) >= Len(prefix)
    /\ \A i \in DOMAIN prefix : str[i] = prefix[i]

Drop(str, n) == [i \in 1..(Len(str) - n) |-> str[i + n]]

\* The trimmed segment is key=value with this key, '=' being its first '='.
HasKey(seg, key) ==
    LET t == Trimmed(seg)
    IN  /\ Len(t) > Len(key)
        /\ StartsWith(t, key)
        /\ t[Len(key) + 1] = "="
        /\ \A i \in DOMAIN key : key[i] # "="

ValueAfter(seg, key) == Drop(Trimmed(seg), Len(key) + 1)

\* The segments of the supplied cookie header that carry the configured key.
Matching ==
    IF session_extraction.cookie_name = None \/ CookieHeader = None
    THEN {}
    ELSE {i \in DOMAIN xsegs : HasKey(xsegs[i], session_extraction.cookie_name[1])}

CookieHit == Matching # {}

FirstMatch == CHOOSE i \in Matching : \A j \in Matching : i <= j

FirstCookieValue == ValueAfter(xsegs[FirstMatch], session_extraction.cookie_name[1])

HeaderHit ==
    /\ session_extraction.header_name # None
    /\ HeaderSupplied
    /\ to_uppercase(session_extraction.header_name[1])
          = to_uppercase(xargs[1].header_name[1])

\* C5: cookie first.  When cookie_name is configured and the supplied cookie
\* header has a well-formed pair with that key, the result is that cookie's
\* value whatever header pair is supplied; a matching header gives the
\* result only when the cookie path yields nothing; when neither path
\* yields a value the result is absence.
C5_CookieFirst ==
    Called =>
        /\ CookieHit => xout = Some(Some(FirstCookieValue))
        /\ (~CookieHit /\ HeaderHit) => (xout # Some(None))
        /\ (~CookieHit /\ ~HeaderHit) => xout = Some(None)

\* A matching cookie and a matching header with another value: the cookie won.
C5_Witness ==
    /\ Called
    /\ CookieHit
    /\ HeaderHit
    /\ HeaderValue # FirstCookieValue
    /\ Trimmed(HeaderValue) # FirstCookieValue
    /\ xout = Some(Some(FirstCookieValue))

\* C6 as stated: when the header branch is reached and the name matches,
\* header_bearer strips a literal "Bearer " prefix of the value when the
\* value starts with it and otherwise passes the raw value through; without
\* header_bearer the raw value is returned; nothing else is done to it.
C6_AsStated ==
    (Called /\ ~CookieHit /\ HeaderHit) =>
        xout = Some(Some(
            IF session_extraction.header_bearer /\ StartsWith(HeaderValue, Bearer)
            THEN Drop(HeaderValue, Len(Bearer))
            ELSE HeaderValue))

\* C6 amended: with header_bearer the value is first trimmed of leading and
\* trailing whitespace; when the trimmed value starts with "Bearer " the
\* result is the rest of the trimmed value, and otherwise the raw, untrimmed
\* value; without header_bearer the raw value is returned unchanged.
C6_BearerAfterTrim ==
    (Called /\ ~CookieHit /\ HeaderHit) =>
        xout = Some(Some(
            IF session_extraction.header_bearer
                  /\ StartsWith(Trimmed(HeaderValue), Bearer)
            THEN Drop(Trimmed(HeaderValue), Len(Bearer))
            ELSE HeaderValue))

\* header_bearer on a value with whitespace around a Bearer token: the
\* result is neither the raw value nor the raw value less its prefix.
C6_Witness ==
    /\ Called
    /\ ~CookieHit
    /\ HeaderHit
    /\ session_extraction.header_bearer
    /\ Trimmed(HeaderValue) # HeaderValue
    /\ StartsWith(Trimmed(HeaderValue), Bearer)
    /\ xout = Some(Some(Drop(Trimmed(HeaderValue), Len(Bearer))))

\* C7: with cookie_name configured and a cookie header supplied, the header
\* is split on ';', each segment trimmed and cut at its first '='; the
\* result is the value of the leftmost segment whose key is exactly
\* cookie_name; a segment without '=' is passed over and the scan goes on;
\* a later segment with the same key never overrides an earlier one; a key
\* in another letter case does not match.
C7_CookieParsing ==
    (Called /\ session_extraction.cookie_name # None /\ CookieHeader # None) =>
        /\ split(CookieHeader[1], ";") = xsegs
        /\ CookieHit => xout = Some(Some(FirstCookieValue))
        /\ ~CookieHit => xout = Some(extract_header(session_extraction,
                IF HeaderSupplied
                THEN Some(<<xargs[1].header_name[1], HeaderValue>>)
                ELSE None))

\* A segment without '=' first, then two segments with the key and
\* different values: the first of the two was returned.
C7_Witness ==
    /\ Called
    /\ CookieHit
    /\ \E i \in DOMAIN xsegs :
            i < FirstMatch /\ xsegs[i] # << >> /\ find(xsegs[i], "=") = 0
    /\ \E j \in Matching :
            /\ j > FirstMatch
            /\ ValueAfter(xsegs[j], session_extraction.cookie_name[1]) # FirstCookieValue
    /\ xout = Some(Some(FirstCookieValue))

----------------------------------------------------------------------------
(* Guard construction and route matching: the properties.                  *)

Constructed == guard # None /\ guard[1].ok

Queried == query # None

CompiledRoutes == guard[1].val.inner.routes

\* The rule lists this verb, written in capitals, among its methods.
Lists(r, method) ==
    \E j \in DOMAIN r.methods[1] : r.methods[1][j] = to_uppercase(method)

Reversed(seq) == [i \in DOMAIN seq |-> seq[Len(seq) + 1 - i]]

\* C4 as stated: is_secure is true iff some compiled route's pattern matches
\* the path and its method restriction is absent (unset or empty) or
\* contains the uppercased method.
C4_AsStated ==
    (Constructed /\ Queried) =>
        secure[1] = (\E i \in DOMAIN CompiledRoutes :
                        /\ is_match(CompiledRoutes[i].re, query[1].path)
                        /\ \/ CompiledRoutes[i].methods = None
                           \/ CompiledRoutes[i].methods = Some(<< >>)
                           \/ Lists(CompiledRoutes[i], query[1].method))

\* C4 amended: is_secure is true iff some compiled route's pattern matches
\* the path and its method list is unset or contains the uppercased method
\* (a list that is set but empty admits no method); the result is the same
\* with the rules in the opposite order.
C4_AnyRoute ==
    (Constructed /\ Queried) =>
        /\ secure[1] = (\E i \in DOMAIN CompiledRoutes :
                          /\ is_match(CompiledRoutes[i].re, query[1].path)
                          /\ \/ CompiledRoutes[i].methods = None
                             \/ Lists(CompiledRoutes[i], query[1].method))
        /\ secure[1] = is_secure(EGuard_new(Reversed(secure_routes[1]), TRUE).val.routes,
                                 query[1].path, query[1].method)

\* Two rules whose patterns both match the path: the first has an empty
\* method list, the second admits the method; the request is secure.
C4_Witness ==
    /\ Constructed
    /\ Queried
    /\ Len(CompiledRoutes) = 2
    /\ is_match(CompiledRoutes[1].re, query[1].path)
    /\ is_match(CompiledRoutes[2].re, query[1].path)
    /\ CompiledRoutes[1].methods = Some(<< >>)
    /\ CompiledRoutes[2].methods # None
    /\ Lists(CompiledRoutes[2], query[1].method)
    /\ secure = Some(TRUE)

\* The rules of the configuration with every method in small letters.
LowerCased(routes) ==
    [i \in DOMAIN routes |->
        [path_pattern |-> routes[i].path_pattern,
         methods |-> IF routes[i].methods = None
                     THEN None
                     ELSE Some([j \in DOMAIN routes[i].methods[1] |->
                                  [k \in DOMAIN routes[i].methods[1][j] |->
                                      to_ascii_lowercase(routes[i].methods[1][j][k])]])]]

\* C8: for every path, two methods that differ only in letter case get the
\* same answer from is_secure, and the answer does not depend on the letter
\* case the configuration wrote the rule's methods in.
C8_MethodCase ==
    (Constructed /\ Queried) =>
        /\ \A other \in QueryMethods :
              eq_ignore_ascii_case(other, query[1].method) =>
                  is_secure(CompiledRoutes, query[1].path, other) = secure[1]
        /\ is_secure(EGuard_new(LowerCased(secure_routes[1]), TRUE).val.routes,
                     query[1].path, query[1].method) = secure[1]

\* A rule that lists a method in mixed case, a request with that method in
\* small letters, and no rule open to all methods: the request is secure.
C8_Witness ==
    /\ Constructed
    /\ Queried
    /\ query[1].method = <<"g", "e", "t">>
    /\ \A i \in DOMAIN secure_routes[1] :
          /\ secure_routes[1][i].methods # None
          /\ \A j \in DOMAIN secure_routes[1][i].methods[1] :
                secure_routes[1][i].methods[1][j] # query[1].method
    /\ secure = Some(TRUE)

\* The parentheses of the pattern pair up.
Balanced(pattern) ==
    LET opens(n) == Cardinality({i \in 1..n : pattern[i] = "("})
        closes(n) == Cardinality({i \in 1..n : pattern[i] = ")"})
    IN  /\ \A n \in DOMAIN pattern : closes(n) <= opens(n)
        /\ opens(Len(pattern)) = closes(Len(pattern))

InvalidRoutes ==
    {i \in DOMAIN secure_routes[1] : ~Balanced(secure_routes[1][i].path_pattern)}

FirstInvalid == CHOOSE i \in InvalidRoutes : \A j \in InvalidRoutes : i <= j

\* C9: construction is all-or-nothing.  With an invalid path_pattern at any
\* position the constructor returns an error and no guard; the error of
\* route compilation (reached once the HTTP client is built) names the
\* first invalid pattern string and the cause of its rejection.  A guard
\* that was constructed holds exactly one compiled route per configured
\* route, in order, so no invalid pattern is left to be met by a request.
C9_AllOrNothing ==
    guard # None =>
        /\ InvalidRoutes # {} =>
              /\ ~guard[1].ok
              /\ client_built[1] =>
                    /\ guard[1].val.error = "Invalid route regex"
                    /\ guard[1].val.pattern
                          = secure_routes[1][FirstInvalid].path_pattern
                    /\ guard[1].val.cause \in {"unclosed group", "unopened group"}
        /\ guard[1].ok =>
              /\ InvalidRoutes = {}
              /\ Len(CompiledRoutes) = Len(secure_routes[1])
              /\ \A i \in DOMAIN CompiledRoutes :
                    CompiledRoutes[i].re
                        = Regex_new(secure_routes[1][i].path_pattern).val

\* A valid route first and an invalid one after it: no guard, and the error
\* names the second route's pattern.
C9_Witness ==
    /\ guard # None
    /\ client_built = Some(TRUE)
    /\ Len(secure_routes[1]) = 2
    /\ InvalidRoutes = {2}
    /\ ~guard[1].ok
    /\ guard[1].val.pattern = secure_routes[1][2].path_pattern

----------------------------------------------------------------------------
(* The trust call and the verdict: the properties.                         *)

Sent(c) == pc[c] \notin {"idle", "queued"}

Computed(c) == result[c] # None

\* a >= b on f32: neither is NaN and a is not below b.
AtLeast(a, b) == ~a.nan /\ ~b.nan /\ ~(a.v < b.v)

\* The request of invocation c ended in a timeout, a connection failure, a
\* status that is neither 2xx nor 404, or a 2xx whose body is no TrustResponse.
Failed(c) ==
    LET o == reply[c][1]
    IN  \/ o.kind \in {"timeout", "connect"}
        \/ o.kind = "http" /\ o.status \notin 200..299 /\ o.status # 404
        \/ o.kind = "http" /\ o.status \in 200..299 /\ ~o.body.json

\* C1: for every trust response decide obtained, the verdict is Allow iff
\* trust_score >= min_trust_score (a score equal to the threshold is
\* allowed), and otherwise Deny with status 403 and a message naming the
\* trust score; the host sees the same verdict; nothing else is produced.
C1_Threshold ==
    \A c \in Calls :
        (fetched[c] # None /\ fetched[c][1].ok) =>
            LET score == fetched[c][1].val.trust_score
                verdict == result[c][1]
            IN  /\ verdict.ok
                /\ verdict.val.allow = AtLeast(score, min_trust_score)
                /\ verdict.val.allow =>
                      verdict.val.status = None /\ verdict.val.message = None
                /\ ~verdict.val.allow =>
                      /\ verdict.val.status = Some(403)
                      /\ verdict.val.message = Some(<<"Low trust score: ", score>>)
                /\ settled[c] # None => settled[c][1] = verdict

\* One invocation allowed with its score equal to the threshold, another
\* denied with a score just below it.
C1_Witness ==
    \E c, d \in Calls :
        /\ fetched[c] # None /\ fetched[c][1].ok
        /\ fetched[d] # None /\ fetched[d][1].ok
        /\ fetched[c][1].val.trust_score = min_trust_score
        /\ result[c][1].val.allow
        /\ fetched[d][1].val.trust_score.v = min_trust_score.v - 1
        /\ ~result[d][1].val.allow
        /\ reply[d][1].status = 200

\* C2: an invocation whose trust call failed ends with the error of the
\* call and never with a verdict, in the core and through the binding,
\* where the task is rejected and no JsDecision is made.
C2_ErrorsPropagate ==
    \A c \in Calls :
        (reply[c] # None /\ Failed(c)) =>
            /\ ~fetched[c][1].ok
            /\ ~result[c][1].ok
            /\ result[c][1].val = fetched[c][1].val
            /\ pc[c] # "resolved"
            /\ settled[c] # None =>
                  ~settled[c][1].ok /\ settled[c][1].val = fetched[c][1].val

\* One invocation rejected after a 500, another after a 2xx whose body
\* does not parse.
C2_Witness ==
    \E c, d \in Calls :
        /\ pc[c] = "rejected" /\ pc[d] = "rejected"
        /\ reply[c][1].kind = "http" /\ reply[c][1].status = 500
        /\ reply[d][1].kind = "http" /\ reply[d][1].status = 200

\* C3: a 404 is not an error: fetch_trust returns the session id it was
\* given with trust_score 0.0 and reason "unknown_session", and decide
\* gives the verdict of the threshold comparison on 0.0: Deny(403) for a
\* positive min_trust_score, Allow for one that is 0 or below.
C3_UnknownSession ==
    \A c \in Calls :
        (reply[c] # None /\ reply[c][1].kind = "http" /\ reply[c][1].status = 404) =>
            /\ fetched[c][1] = Ok([session_id |-> task[c][1], trust_score |-> F32(0),
                                   reason |-> Some("unknown_session")])
            /\ result[c][1].ok
            /\ (~min_trust_score.nan /\ min_trust_score.v > 0) =>
                  /\ ~result[c][1].val.allow
                  /\ result[c][1].val.status = Some(403)
            /\ (~min_trust_score.nan /\ min_trust_score.v <= 0) =>
                  result[c][1].val = Allow

\* A 404 for "ghost", whose body carried another id and a high score,
\* under a positive threshold: the promise resolved with a denial.
C3_Witness ==
    \E c \in Calls :
        /\ pc[c] = "resolved"
        /\ task[c] = Some("ghost")
        /\ reply[c][1].status = 404
        /\ reply[c][1].body.json
        /\ min_trust_score.v > 0
        /\ ~settled[c][1].val.allow

\* C10: every invocation that reached the trust call has issued exactly one
\* request, whatever its outcome (no retry), invocations for the same
\* session id are not coalesced, and two invocations whose own requests got
\* the same response have the same result, whatever the others got.
C10_OneRequestEach ==
    /\ BagCardinality(wire) = Cardinality({c \in Calls : Sent(c)})
    /\ \A sid \in SessionIds :
          CopiesIn(TrustRequest(sid), wire)
              = Cardinality({c \in Calls : Sent(c) /\ task[c] = Some(sid)})
    /\ \A c, d \in Calls :
          (Computed(c) /\ Computed(d) /\ reply[c] = reply[d]) => result[c] = result[d]

\* Two settled invocations for the same session id, one failed and one
\* allowed: two requests for that id were sent.
C10_Witness ==
    \E c, d \in Calls :
        /\ c # d
        /\ task[c] = task[d]
        /\ pc[c] = "rejected"
        /\ pc[d] = "resolved"
        /\ CopiesIn(TrustRequest(task[c][1]), wire) = 2

====
